---- MODULE Spec2Model ----
(***************************************************************************)
(* Halide::Param<T> (src/src/Param.h): a typed, copyable handle on a       *)
(* reference-counted Internal::Parameter record, and user_context_value(). *)
(*                                                                         *)
(* The class template is modelled for one instantiation Param<T> per       *)
(* behaviour (T is drawn in Init).  Handles live at addresses (the `this'  *)
(* pointer of a Param object); addresses are reused after a destruction.   *)
(* Records live in a pool of MaxRecords slots; a slot is free again once   *)
(* its record has lost its last reference (the Param objects and the       *)
(* variable nodes that hold it).  The library is single-threaded:          *)
(* a constructor or set_range in progress (cur) runs its statements one    *)
(* step at a time, in source order, and no other operation starts before   *)
(* it has returned.  A memory fault ends the process: nothing is left.     *)
(*                                                                         *)
(* Internal::Parameter, Internal::make_entity_name, Expr, Cast::make,      *)
(* Variable::make and Argument are not part of the source file; they are   *)
(* modelled from the specification's description of them.                  *)
(***************************************************************************)
EXTENDS Integers, Sequences, FiniteSets, TLC

\* ---------------------------------------------------------------- bounds
MaxAddr == 2
MaxRecords == 3
MaxVal == 1

Addr == 1..MaxAddr
RecId == 1..MaxRecords
Val == 0..MaxVal

\* ---------------------------------------------------------------- types
CppTypes == {"int32_t", "void *"}

type_of(t) == IF t = "int32_t" THEN "Int(32)" ELSE "Handle()"

Handle == "Handle()"

not_a_pointer(t) == t # "void *"

TypeTags == {"Int(32)", "Float(32)", "Handle()"}

\* ---------------------------------------------------------------- names
NoName == [text |-> "", id |-> 0]

UserName(n) == [text |-> n, id |-> 0]

ReservedName == UserName("__user_context")

UserNames == {"__user_context", "threshold"}

\* The generated name is a function of the requesting handle's identity
\* (its address) and the role tag alone.
make_entity_name(this, pattern, prefix) == [text |-> prefix, id |-> this]

\* ---------------------------------------------------------- expressions
\* One record shape for every IR node: immediates carry v, a cast carries
\* the kind, type and value of its operand, a variable carries the name
\* and the record it refers to.
Undefined ==
    [kind |-> "undefined", type |-> "", v |-> 0, of |-> "", oftype |-> "",
     name |-> NoName, param |-> 0]

Imm(t, v) ==
    [kind |-> "imm", type |-> t, v |-> v, of |-> "", oftype |-> "",
     name |-> NoName, param |-> 0]

Cast_make(t, e) ==
    [kind |-> "Cast", type |-> t, v |-> e.v, of |-> e.kind, oftype |-> e.type,
     name |-> NoName, param |-> 0]

Variable_make(t, n, p) ==
    [kind |-> "Variable", type |-> t, v |-> 0, of |-> "", oftype |-> "",
     name |-> n, param |-> p]

defined(e) == e.kind # "undefined"

\* Expressions a caller passes as bounds: unbounded, a bound of type
\* Int(32), a bound of type Float(32).
InputExprs == {Undefined, Imm("Int(32)", 0), Imm("Float(32)", 0)}

\* What e.type() yields.  An undefined expression has no node to read the
\* type from: the read may fault or yield any type tag.
Expr_type(e) == IF defined(e) THEN {e.type} ELSE TypeTags \cup {"fault"}

\* -------------------------------------------------------------- records
NoRec ==
    [alloc |-> FALSE, type |-> "", is_buffer |-> FALSE, dimensions |-> 0,
     name |-> NoName, is_explicit_name |-> FALSE,
     has_value |-> FALSE, value |-> 0, has_default |-> FALSE, default |-> 0,
     min_value |-> Undefined, max_value |-> Undefined]

Parameter(t, is_buffer, d, n, is_explicit) ==
    [NoRec EXCEPT !.alloc = TRUE, !.type = t, !.is_buffer = is_buffer,
                  !.dimensions = d, !.name = n, !.is_explicit_name = is_explicit]

param_set_scalar(p, v) == [p EXCEPT !.has_value = TRUE, !.value = v]

param_set_default(p, v) == [p EXCEPT !.has_default = TRUE, !.default = v]

param_set_min_value(p, e) == [p EXCEPT !.min_value = e]

param_set_max_value(p, e) == [p EXCEPT !.max_value = e]

\* the literal view of the current default/value: of the scalar slot once
\* a value has been set, of the stored default before that, and undefined
\* when the record has neither
param_get_scalar_expr(p) ==
    IF p.has_value THEN Imm(p.type, p.value)
    ELSE IF p.has_default THEN Imm(p.type, p.default)
    ELSE Undefined

\* ---------------------------------------------------------------- state
VARIABLES T, handles, records, cur, ctx, exprs

vars == <<T, handles, records, cur, ctx, exprs>>

NoHandle == [live |-> FALSE, rec |-> 0, origin |-> 0]

Idle ==
    [op |-> "idle", variant |-> "", n |-> "", this |-> 0, rec |-> 0,
     todo |-> <<>>, done |-> <<>>, err |-> "ok"]

Init ==
    /\ T \in CppTypes
    /\ handles = [a \in Addr |-> NoHandle]
    /\ records = [r \in RecId |-> NoRec]
    /\ cur = Idle
    /\ ctx = {}
    /\ exprs = {}

Live(h) == handles[h].live

Rec(h) == records[handles[h].rec]

\* ------------------------------------------------------------ accessors
name(h) == Rec(h).name

is_explicit_name(h) == Rec(h).is_explicit_name

get(h) == Rec(h).value

type(h) == type_of(T)

get_min_value(h) == Rec(h).min_value

get_max_value(h) == Rec(h).max_value

\* ----------------------------------------------------------- conversions
\* the variable is named after the converting handle, not after the record
ToExpr_own_name(h) ==
    Variable_make(type_of(T), make_entity_name(h, "Halide::Param<?", "p"), handles[h].rec)

ToExpr(h) == Variable_make(type_of(T), name(h), handles[h].rec)

ToExternFuncArgument(h) == [is_expr |-> TRUE, expr |-> ToExpr(h)]

ToArgument(h) ==
    [name |-> name(h), kind |-> "InputScalar", type |-> type(h), dimensions |-> 0,
     def |-> param_get_scalar_expr(Rec(h)),
     min |-> get_min_value(h), max |-> get_max_value(h)]

\* ------------------------------------------------------- member functions
\* the reserved name is not looked for
check_name_off(p) == TRUE

check_name(p) == p.name # ReservedName

\* the bound is stored as passed
set_min_value_as_passed(p, e, t) == param_set_min_value(p, e)

\* t is what min.type() returned
set_min_value(p, e, t) ==
    param_set_min_value(p, IF t # type_of(T) THEN Cast_make(type_of(T), e) ELSE e)

set_max_value(p, e, t) ==
    param_set_max_value(p, IF t # type_of(T) THEN Cast_make(type_of(T), e) ELSE e)

\* a value above an immediate maximum is refused
set_in_range(p, v) ==
    IF p.max_value.kind = "imm" /\ v > p.max_value.v THEN p ELSE param_set_scalar(p, v)

set(p, v) == param_set_scalar(p, v)

set_default_value(p, v) == param_set_default(p, v)

\* ------------------------------------------------------ constructor bodies
AutoVariants == {"default", "val", "val_range"}

NamedVariants == {"name_str", "name_cstr", "name_val", "name_val_range"}

Variants == AutoVariants \cup NamedVariants

set_range_body == <<"set_min_value", "set_max_value">>

\* the value is written before the bounds
Body_value_first(variant) ==
    CASE variant = "default"        -> <<"ret">>
      [] variant = "name_str"       -> <<"check_name", "ret">>
      [] variant = "name_cstr"      -> <<"check_name", "ret">>
      [] variant = "val"            -> <<"set", "ret">>
      [] variant = "name_val"       -> <<"check_name", "set", "ret">>
      [] variant = "val_range"      -> <<"set">> \o set_range_body \o <<"ret">>
      [] variant = "name_val_range" -> <<"check_name", "set">> \o set_range_body \o <<"ret">>

Body(variant) ==
    CASE variant = "default"        -> <<"ret">>
      [] variant = "name_str"       -> <<"check_name", "ret">>
      [] variant = "name_cstr"      -> <<"check_name", "ret">>
      [] variant = "val"            -> <<"set", "ret">>
      [] variant = "name_val"       -> <<"check_name", "set", "ret">>
      [] variant = "val_range"      -> set_range_body \o <<"set", "ret">>
      [] variant = "name_val_range" -> <<"check_name">> \o set_range_body \o <<"set", "ret">>

Running == cur.op \in {"ctor", "set_range"}

At(step) == Running /\ cur.todo # <<>> /\ Head(cur.todo) = step

Advance == [cur EXCEPT !.todo = Tail(cur.todo), !.done = Append(cur.done, Head(cur.todo))]

\* the operation that faulted stays on record, the objects do not
Dead == [cur EXCEPT !.op = "dead", !.this = 0, !.rec = 0, !.todo = <<>>, !.err = "fault"]

Holders(r) == {h \in Addr : Live(h) /\ handles[h].rec = r}

\* the variable nodes that keep a reference on record r
Nodes(r) == {e \in exprs \cup ctx : e.param = r}

\* the reference count of r drops to zero when Param object h lets go of it
LastRef(h, r) == Holders(r) = {h} /\ Nodes(r) = {}

\* origin names the construction a Param object comes from (its own, or
\* that of the object it was copy-constructed from) by the lowest address
\* among the live objects that come from it
Lowest(S) == CHOOSE a \in S : \A b \in S : a <= b

Renamed(hs) ==
    [h \in Addr |->
        IF hs[h].live
        THEN [hs[h] EXCEPT !.origin =
                 Lowest({g \in Addr : hs[g].live /\ hs[g].origin = hs[h].origin})]
        ELSE hs[h]]

FreeRecs == {r \in RecId : ~records[r].alloc}

NewRec == CHOOSE r \in FreeRecs : \A q \in FreeRecs : r <= q

\* ---------------------------------------------------------------- actions
\* the process dies on a memory fault
Fault ==
    /\ handles' = [a \in Addr |-> NoHandle]
    /\ records' = [r \in RecId |-> NoRec]
    /\ ctx' = {}
    /\ exprs' = {}
    /\ cur' = Dead
    /\ UNCHANGED T

\* Param<T>::Param(...): the member initialiser creates the record.
Construct(this, variant, n) ==
    /\ cur = Idle
    /\ ~Live(this)
    /\ FreeRecs # {}
    /\ variant = "val" => not_a_pointer(T)
    /\ records' = [records EXCEPT ![NewRec] =
           IF variant \in NamedVariants
           THEN Parameter(type_of(T), FALSE, 0, UserName(n), TRUE)
           ELSE Parameter(type_of(T), FALSE, 0,
                          make_entity_name(this, "Halide::Param<?", "p"), FALSE)]
    /\ cur' = [op |-> "ctor", variant |-> variant,
               n |-> IF variant \in NamedVariants THEN n ELSE "",
               this |-> this, rec |-> NewRec,
               todo |-> Body(variant), done |-> <<"Parameter">>, err |-> "ok"]
    /\ UNCHANGED <<exprs, T, handles, ctx>>

\* check_name(): user_assert aborts the constructor when the name is reserved
StepCheckName ==
    /\ At("check_name")
    /\ cur' = IF check_name(records[cur.rec])
              THEN Advance
              ELSE [cur EXCEPT !.todo = <<"unwind">>, !.err = "ReservedNameError"]
    /\ UNCHANGED <<exprs, T, handles, records, ctx>>

\* the exception leaves the constructor: the member param is destroyed, the
\* record loses its only holder, and no Param object comes into being
StepUnwind ==
    /\ At("unwind")
    /\ records' = [records EXCEPT ![cur.rec] = NoRec]
    /\ cur' = Idle
    /\ UNCHANGED <<exprs, T, handles, ctx>>

\* set_min_value(min) as a statement of a constructor or of set_range; the
\* argument is drawn when the statement that uses it runs
StepSetMin(e, t) ==
    /\ At("set_min_value")
    /\ t \in Expr_type(e)
    /\ IF t = "fault"
       THEN Fault
       ELSE /\ records' = [records EXCEPT ![cur.rec] = set_min_value(@, e, t)]
            /\ cur' = Advance
            /\ UNCHANGED <<exprs, T, handles, ctx>>

\* set_max_value(max) as a statement of a constructor or of set_range
StepSetMax(e, t) ==
    /\ At("set_max_value")
    /\ t \in Expr_type(e)
    /\ IF t = "fault"
       THEN Fault
       ELSE /\ records' = [records EXCEPT ![cur.rec] = set_max_value(@, e, t)]
            /\ cur' = Advance
            /\ UNCHANGED <<exprs, T, handles, ctx>>

\* set(val) as the last statement of a constructor
StepSet(v) ==
    /\ At("set")
    /\ records' = [records EXCEPT ![cur.rec] = set(@, v)]
    /\ cur' = Advance
    /\ UNCHANGED <<exprs, T, handles, ctx>>

\* the constructor returns: the Param object at `this' now holds the record;
\* set_range returns to its caller
StepRet ==
    /\ At("ret")
    /\ handles' = IF cur.op = "ctor"
                  THEN [handles EXCEPT ![cur.this] =
                           [live |-> TRUE, rec |-> cur.rec, origin |-> cur.this]]
                  ELSE handles
    /\ cur' = Idle
    /\ UNCHANGED <<exprs, T, records, ctx>>

\* the copy gets a record of its own
CopyOf_own_record(src) ==
    [live |-> TRUE, rec |-> IF FreeRecs # {} THEN NewRec ELSE handles[src].rec,
     origin |-> handles[src].origin]

\* the implicit copy constructor: dst shares src's record
CopyOf(src) == [live |-> TRUE, rec |-> handles[src].rec, origin |-> handles[src].origin]

Copy(src, dst) ==
    /\ cur = Idle
    /\ Live(src)
    /\ ~Live(dst)
    /\ handles' = Renamed([handles EXCEPT ![dst] = CopyOf(src)])
    /\ UNCHANGED <<exprs, T, records, cur, ctx>>

\* the implicit copy assignment dst = src, member-wise on param: dst lets go
\* of the record it held (released with its last reference) and shares src's;
\* dst stays the object its construction made
Assign(src, dst) ==
    /\ cur = Idle
    /\ Live(src)
    /\ Live(dst)
    /\ handles' = [handles EXCEPT ![dst] = [CopyOf(src) EXCEPT !.origin = handles[dst].origin]]
    /\ records' = IF LastRef(dst, handles[dst].rec) /\ handles[src].rec # handles[dst].rec
                  THEN [records EXCEPT ![handles[dst].rec] = NoRec]
                  ELSE records
    /\ UNCHANGED <<exprs, T, cur, ctx>>

\* the implicit destructor: the record is released with its last reference
Destroy(h) ==
    /\ cur = Idle
    /\ Live(h)
    /\ handles' = Renamed([handles EXCEPT ![h] = NoHandle])
    /\ records' = IF LastRef(h, handles[h].rec)
                  THEN [records EXCEPT ![handles[h].rec] = NoRec]
                  ELSE records
    /\ UNCHANGED <<exprs, T, cur, ctx>>

Set(h, v) ==
    /\ cur = Idle
    /\ Live(h)
    /\ records' = [records EXCEPT ![handles[h].rec] = set(@, v)]
    /\ UNCHANGED <<exprs, T, handles, cur, ctx>>

SetDefaultValue(h, v) ==
    /\ cur = Idle
    /\ Live(h)
    /\ records' = [records EXCEPT ![handles[h].rec] = set_default_value(@, v)]
    /\ UNCHANGED <<exprs, T, handles, cur, ctx>>

SetMinValue(h, e, t) ==
    /\ cur = Idle
    /\ Live(h)
    /\ t \in Expr_type(e)
    /\ IF t = "fault"
       THEN Fault
       ELSE /\ records' = [records EXCEPT ![handles[h].rec] = set_min_value(@, e, t)]
            /\ UNCHANGED <<exprs, T, handles, cur, ctx>>

SetMaxValue(h, e, t) ==
    /\ cur = Idle
    /\ Live(h)
    /\ t \in Expr_type(e)
    /\ IF t = "fault"
       THEN Fault
       ELSE /\ records' = [records EXCEPT ![handles[h].rec] = set_max_value(@, e, t)]
            /\ UNCHANGED <<exprs, T, handles, cur, ctx>>

\* operator Expr, also as called by operator ExternFuncArgument: the node
\* made takes a reference on the record and keeps it
Convert(h) ==
    /\ cur = Idle
    /\ Live(h)
    /\ exprs' = exprs \cup {ToExpr(h)}
    /\ UNCHANGED <<T, handles, records, cur, ctx>>

\* set_range(min, max) is entered; its two statements follow as steps
SetRange(h) ==
    /\ cur = Idle
    /\ Live(h)
    /\ cur' = [op |-> "set_range", variant |-> "", n |-> "",
               this |-> h, rec |-> handles[h].rec,
               todo |-> set_range_body \o <<"ret">>, done |-> <<>>, err |-> "ok"]
    /\ UNCHANGED <<exprs, T, handles, records, ctx>>

\* user_context_value(): a Parameter is created for the call and the
\* returned variable node refers to it
user_context_value ==
    /\ cur = Idle
    /\ FreeRecs # {}
    /\ records' = [records EXCEPT ![NewRec] =
                      Parameter(Handle, FALSE, 0, ReservedName, TRUE)]
    /\ ctx' = ctx \cup {Variable_make(Handle, ReservedName, NewRec)}
    /\ UNCHANGED <<exprs, T, handles, cur>>

\* ------------------------------------------------------- specifications
Outcomes == TypeTags \cup {"fault"}

\* Spec: any number of Param objects, every constructor, copies,
\* assignments, destructions and the context accessor; the constructors are called with
\* one value and one bound of another type than T.
LifeVals == {0}

LifeExprs == {Imm("Float(32)", 0)}

Next ==
    \/ \E this \in Addr, variant \in Variants, n \in UserNames : Construct(this, variant, n)
    \/ StepCheckName
    \/ StepUnwind
    \/ \E e \in LifeExprs, t \in Outcomes : StepSetMin(e, t)
    \/ \E e \in LifeExprs, t \in Outcomes : StepSetMax(e, t)
    \/ \E v \in LifeVals : StepSet(v)
    \/ StepRet
    \/ \E src \in Addr, dst \in Addr : Copy(src, dst)
    \/ \E src \in Addr, dst \in Addr : Assign(src, dst)
    \/ \E h \in Addr : Destroy(h)
    \/ user_context_value

Spec == Init /\ [][Next]_vars

AtMostOneRecord == \E r \in RecId : RecId \ FreeRecs \subseteq {r}

\* SpecExpr: three parameters with generated or given names, their copies,
\* assignments, destructions and conversions to expression form.
ExprVariants == {"default", "name_str"}

AtMostTwoRecords == \E r \in RecId, q \in RecId : RecId \ FreeRecs \subseteq {r, q}

NextExpr ==
    \/ \E this \in Addr, variant \in ExprVariants, n \in UserNames :
           AtMostTwoRecords /\ Construct(this, variant, n)
    \/ StepCheckName
    \/ StepUnwind
    \/ StepRet
    \/ \E src \in Addr, dst \in Addr : Copy(src, dst)
    \/ \E src \in Addr, dst \in Addr : Assign(src, dst)
    \/ \E h \in Addr : Destroy(h)
    \/ \E h \in Addr : Convert(h)

SpecExpr == Init /\ [][NextExpr]_vars

\* SpecOne: one Param object at a time, every constructor and every
\* setter, with every argument; the one object can be assigned to itself.
NoneLive == \A h \in Addr : ~Live(h)

NextOne ==
    \/ \E this \in Addr, variant \in Variants, n \in UserNames :
           NoneLive /\ Construct(this, variant, n)
    \/ StepCheckName
    \/ StepUnwind
    \/ \E e \in InputExprs, t \in Outcomes : StepSetMin(e, t)
    \/ \E e \in InputExprs, t \in Outcomes : StepSetMax(e, t)
    \/ \E v \in Val : StepSet(v)
    \/ StepRet
    \/ \E h \in Addr : Assign(h, h)
    \/ \E h \in Addr : Destroy(h)
    \/ \E h \in Addr, v \in Val : Set(h, v)
    \/ \E h \in Addr, v \in Val : SetDefaultValue(h, v)
    \/ \E h \in Addr, e \in InputExprs, t \in Outcomes : SetMinValue(h, e, t)
    \/ \E h \in Addr, e \in InputExprs, t \in Outcomes : SetMaxValue(h, e, t)
    \/ \E h \in Addr : SetRange(h)

SpecOne == Init /\ [][NextOne]_vars

\* SpecShare: two parameters, their copies and assignments between them,
\* every setter, each called with one argument.
ShareExprs == {Imm("Int(32)", 0)}

ShareVals == {1}

ShareDefaults == {0}

NextShare ==
    \/ \E this \in Addr : AtMostOneRecord /\ Construct(this, "default", "")
    \/ StepRet
    \/ \E src \in Addr, dst \in Addr : Copy(src, dst)
    \/ \E src \in Addr, dst \in Addr : Assign(src, dst)
    \/ \E h \in Addr : Destroy(h)
    \/ \E h \in Addr, v \in ShareVals : Set(h, v)
    \/ \E h \in Addr, v \in ShareDefaults : SetDefaultValue(h, v)
    \/ \E h \in Addr, e \in ShareExprs, t \in Outcomes : SetMinValue(h, e, t)
    \/ \E h \in Addr, e \in ShareExprs, t \in Outcomes : SetMaxValue(h, e, t)
    \/ \E h \in Addr : SetRange(h)
    \/ \E e \in ShareExprs, t \in Outcomes : StepSetMin(e, t)
    \/ \E e \in ShareExprs, t \in Outcomes : StepSetMax(e, t)

SpecShare == Init /\ [][NextShare]_vars

\* ================================================================ claims
Range(s) == {s[i] : i \in 1..Len(s)}

LiveRecs == {r \in RecId : Holders(r) # {}}

Untouched(p) ==
    /\ ~p.has_value
    /\ ~p.has_default
    /\ p.min_value = Undefined
    /\ p.max_value = Undefined

\* C1: no two records that are still held by a handle carry equal
\* auto-generated names.
C1_UniqueAutoNames ==
    \A r1 \in LiveRecs, r2 \in LiveRecs :
        (r1 # r2 /\ ~records[r1].is_explicit_name /\ ~records[r2].is_explicit_name)
            => records[r1].name # records[r2].name

\* C2: in every constructor that takes a name, the name "__user_context"
\* ends the construction with the reserved-name error before anything is
\* written to the record and without a handle; with any other name the
\* construction succeeds, and the handle has that name, marked explicit.
C2_ReservedNameRejected ==
    /\ (cur.op = "ctor" /\ cur.variant \in NamedVariants) =>
          /\ records[cur.rec].name = UserName(cur.n)
          /\ records[cur.rec].is_explicit_name
          /\ ~Live(cur.this)
          /\ IF cur.n = "__user_context"
             THEN /\ cur.done = <<"Parameter">>
                  /\ Untouched(records[cur.rec])
                  /\ cur.todo # <<>>
                  /\ Head(cur.todo) \in {"check_name", "unwind"}
                  /\ (Head(cur.todo) = "unwind") <=> (cur.err = "ReservedNameError")
             ELSE cur.err = "ok"
    /\ (cur.op = "dead") => (cur.variant \notin NamedVariants)
    /\ \A h \in Addr : Live(h) => name(h) # ReservedName

\* The part of C2 that does not depend on the bounds passed: the reserved
\* name is rejected before any write, any other name passes the check.
C2_NameCheckOnly ==
    /\ (cur.op = "ctor" /\ cur.variant \in NamedVariants) =>
          /\ records[cur.rec].name = UserName(cur.n)
          /\ records[cur.rec].is_explicit_name
          /\ IF cur.n = "__user_context"
             THEN /\ cur.done = <<"Parameter">>
                  /\ Untouched(records[cur.rec])
                  /\ (Head(cur.todo) = "unwind") <=> (cur.err = "ReservedNameError")
             ELSE cur.err = "ok"
    /\ \A h \in Addr : Live(h) => name(h) # ReservedName

\* C10 as stated: every context expression refers to one and the same
\* record, and no handle holds a record of the reserved name.
C10_SingleContextRecord ==
    /\ \A e1 \in ctx, e2 \in ctx : e1.param = e2.param
    /\ \A h \in Addr : Live(h) => name(h) # ReservedName

\* C10 as amended: every call of user_context_value() yields a variable of
\* type Handle named "__user_context" whose record, created by that call
\* and by no earlier one, has that type and name; no handle holds a record
\* of that name, during its life or once its constructor has checked the
\* name.
C10_ContextExprs ==
    /\ [](/\ \A e \in ctx :
              /\ e = Variable_make(Handle, ReservedName, e.param)
              /\ e.param \in RecId
              /\ records[e.param] = Parameter(Handle, FALSE, 0, ReservedName, TRUE)
              /\ Holders(e.param) = {}
           /\ \A h \in Addr : Live(h) => name(h) # ReservedName
           /\ ((cur.op = "ctor" /\ "check_name" \in Range(cur.done))
                  => records[cur.rec].name # ReservedName))
    /\ [][user_context_value =>
             \E e \in ctx' \ ctx :
                 /\ ctx' = ctx \cup {e}
                 /\ ~records[e.param].alloc
                 /\ \A x \in ctx : x.param # e.param]_vars

C10_Witness ==
    /\ \E e1 \in ctx, e2 \in ctx : e1.param # e2.param
    /\ \E h \in Addr : Live(h) /\ is_explicit_name(h)

\* ---------------------------------------------------------------- C3
Obs(h) ==
    <<Rec(h).has_value, get(h), Rec(h).has_default, Rec(h).default,
      get_min_value(h), get_max_value(h), name(h), is_explicit_name(h)>>

SameOrigin(h1, h2) ==
    Live(h1) /\ Live(h2) /\ handles[h1].origin = handles[h2].origin

WriteVia(w) ==
    \/ \E v \in Val : Set(w, v) \/ SetDefaultValue(w, v)
    \/ \E e \in InputExprs, t \in Outcomes : SetMinValue(w, e, t) \/ SetMaxValue(w, e, t)
    \/ /\ cur.op = "set_range"
       /\ cur.this = w
       /\ \E e \in InputExprs, t \in Outcomes : StepSetMin(e, t) \/ StepSetMax(e, t)

SameRecord(h1, h2) ==
    Live(h1) /\ Live(h2) /\ handles[h1].rec = handles[h2].rec

\* C3 as stated: the handles that come from one construction (the
\* constructed handle and its copies) observe the same value, default,
\* bounds, name and explicit-name flag at all times, and a write through a
\* handle is never observed through a handle that comes from another
\* construction.
C3_SharedRecord ==
    /\ [](\A h1 \in Addr, h2 \in Addr : SameOrigin(h1, h2) => Obs(h1) = Obs(h2))
    /\ [][\A w \in Addr, h \in Addr :
             (Live(w) /\ Live(h) /\ ~SameOrigin(w, h) /\ WriteVia(w) /\ Live(h)')
                 => Obs(h)' = Obs(h)]_vars

\* C3 as amended: a copy, made by copy construction or by assignment, holds
\* the record of its source and observes what the source observes, the
\* source being left as it was; the record a handle holds is alive; a write
\* through a handle is observed through every handle that holds the same
\* record at that time, and through no other.
C3_CopiesShare ==
    /\ [](\A h \in Addr : Live(h) =>
             /\ Rec(h).alloc
             /\ \A w \in Addr : SameRecord(w, h) => Obs(w) = Obs(h))
    /\ [][\A src \in Addr, dst \in Addr :
             (handles'[dst] # handles[dst] /\ (Copy(src, dst) \/ Assign(src, dst))) =>
                 /\ handles'[dst].rec = handles[src].rec
                 /\ SameRecord(src, dst)'
                 /\ Obs(dst)' = Obs(src)
                 /\ Obs(src)' = Obs(src)]_vars
    /\ [][\A h \in Addr :
             (Live(h) /\ Live(h)' /\ handles'[h].rec = handles[h].rec /\ Obs(h)' # Obs(h))
                 => \E w \in Addr : SameRecord(w, h) /\ WriteVia(w)]_vars

\* two handles of different constructions share a record after an
\* assignment, and the record has been written
C3_Witness ==
    \E h1 \in Addr, h2 \in Addr :
        /\ h1 # h2
        /\ SameRecord(h1, h2)
        /\ ~SameOrigin(h1, h2)
        /\ Rec(h1).has_value
        /\ Rec(h1).has_default
        /\ defined(get_min_value(h2))
        /\ defined(get_max_value(h2))

\* ---------------------------------------------------------------- C4
SetKeeps(p, q, v) ==
    /\ q.has_value
    /\ q.value = v
    /\ q.min_value = p.min_value
    /\ q.max_value = p.max_value
    /\ q.has_default = p.has_default
    /\ q.default = p.default
    /\ q.name = p.name
    /\ q.is_explicit_name = p.is_explicit_name
    /\ q.type = p.type

\* C4: set(v) followed by get() yields v for every v, in range or not; set
\* raises no error and leaves bounds, default, name and type as they were.
C4_SetGetRoundTrip ==
    [][\A v \in Val :
          /\ \A h \in Addr :
                Set(h, v) => /\ Live(h)'
                             /\ get(h)' = v
                             /\ SetKeeps(Rec(h), Rec(h)', v)
                             /\ cur' = Idle
          /\ StepSet(v) => /\ SetKeeps(records[cur.rec], records'[cur.rec], v)
                           /\ cur'.err = "ok"]_vars

C4_Witness ==
    \E h \in Addr :
        /\ Live(h)
        /\ Rec(h).has_value
        /\ get_max_value(h).kind = "imm"
        /\ get(h) > get_max_value(h).v

\* ---------------------------------------------------------------- C5
DefinedInputs == {e \in InputExprs : defined(e)}

Coerced(e) == IF e.type = type_of(T) THEN e ELSE Cast_make(type_of(T), e)

BoundsTyped ==
    \A r \in RecId :
        /\ defined(records[r].min_value) => records[r].min_value.type = records[r].type
        /\ defined(records[r].max_value) => records[r].max_value.type = records[r].type

\* C5: a bound passed with another type than the handle's is stored as a
\* cast to the handle's type, a bound of the handle's type is stored as it
\* is; a bound that is set always has the record's type.
C5_BoundsCoerced ==
    /\ []BoundsTyped
    /\ [][\A e \in DefinedInputs :
             /\ \A h \in Addr :
                   /\ SetMinValue(h, e, e.type) =>
                         /\ get_min_value(h)' = Coerced(e)
                         /\ get_min_value(h)'.type = type(h)
                   /\ SetMaxValue(h, e, e.type) =>
                         /\ get_max_value(h)' = Coerced(e)
                         /\ get_max_value(h)'.type = type(h)
             /\ StepSetMin(e, e.type) => records'[cur.rec].min_value = Coerced(e)
             /\ StepSetMax(e, e.type) => records'[cur.rec].max_value = Coerced(e)]_vars

C5_Witness ==
    \E h \in Addr :
        /\ Live(h)
        /\ get_min_value(h) = Cast_make(type(h), Imm("Float(32)", 0))
        /\ get_max_value(h) = Imm("Int(32)", 0)

\* ---------------------------------------------------------------- C6
RangeVariants == {"val_range", "name_val_range"}

\* C6: a handle constructed without bounds has undefined bounds, and an
\* undefined expression passed as a bound is accepted and leaves that bound
\* undefined.
C6_UndefinedMeansUnbounded ==
    [][/\ (StepRet /\ cur.op = "ctor" /\ cur.variant \notin RangeVariants) =>
              /\ records'[handles'[cur.this].rec].min_value = Undefined
              /\ records'[handles'[cur.this].rec].max_value = Undefined
       /\ \A h \in Addr :
              /\ (\E t \in Outcomes : SetMinValue(h, Undefined, t)) =>
                     cur'.err = "ok" /\ Live(h)' /\ get_min_value(h)' = Undefined
              /\ (\E t \in Outcomes : SetMaxValue(h, Undefined, t)) =>
                     cur'.err = "ok" /\ Live(h)' /\ get_max_value(h)' = Undefined
       /\ (\E t \in Outcomes : StepSetMin(Undefined, t)) =>
              cur'.err = "ok" /\ records'[cur.rec].min_value = Undefined
       /\ (\E t \in Outcomes : StepSetMax(Undefined, t)) =>
              cur'.err = "ok" /\ records'[cur.rec].max_value = Undefined]_vars

\* ---------------------------------------------------------------- C7
\* C7: the descriptor of a handle has kind InputScalar and rank 0, the
\* record's name, the handle's type, the expression get_scalar_expr gives
\* as the default and the current bounds, and it does not depend on the
\* current value: set(v) does not change it.
C7_Descriptor ==
    /\ [](\A h \in Addr : Live(h) =>
             /\ ToArgument(h).kind = "InputScalar"
             /\ ToArgument(h).dimensions = 0
             /\ ToArgument(h).name = Rec(h).name
             /\ ToArgument(h).type = type_of(T)
             /\ ToArgument(h).def = param_get_scalar_expr(Rec(h))
             /\ ToArgument(h).min = Rec(h).min_value
             /\ ToArgument(h).max = Rec(h).max_value)
    /\ [][\A h \in Addr, v \in Val : Set(h, v) => ToArgument(h)' = ToArgument(h)]_vars

\* The part of C7 that does not depend on what get_scalar_expr reads: kind,
\* rank, name, type and bounds of the descriptor, none of which set(v)
\* changes.
C7_DescriptorShape ==
    /\ [](\A h \in Addr : Live(h) =>
             /\ ToArgument(h).kind = "InputScalar"
             /\ ToArgument(h).dimensions = 0
             /\ ToArgument(h).name = Rec(h).name
             /\ ToArgument(h).type = type_of(T)
             /\ ToArgument(h).def = param_get_scalar_expr(Rec(h))
             /\ ToArgument(h).min = Rec(h).min_value
             /\ ToArgument(h).max = Rec(h).max_value)
    /\ [][\A h \in Addr, v \in Val :
             Set(h, v) => [ToArgument(h)' EXCEPT !.def = Undefined]
                              = [ToArgument(h) EXCEPT !.def = Undefined]]_vars

\* ---------------------------------------------------------------- C8
\* C8 as stated: the expression form of a handle is a variable of the
\* handle's type, named as the record, that refers to one and the same
\* record at every point of every sequence of operations; the handles that
\* come from one construction yield the same node, and the extern-argument
\* form is that expression and no more.
C8_OneLogicalInput ==
    /\ [](\A h \in Addr : Live(h) =>
             /\ Rec(h).alloc
             /\ ToExpr(h) = Variable_make(type_of(T), Rec(h).name, handles[h].rec)
             /\ ToExternFuncArgument(h) = [is_expr |-> TRUE, expr |-> ToExpr(h)]
             /\ \A h2 \in Addr : SameOrigin(h, h2) => ToExpr(h2) = ToExpr(h))
    /\ [][\A h \in Addr : (Live(h) /\ Live(h)') => ToExpr(h)' = ToExpr(h)]_vars

\* C8 as amended: the expression form of a handle is a variable of the
\* handle's type that carries the name of, and refers to, the record the
\* handle holds at that time, a record that is alive; handles that hold the
\* same record yield the same node; the node of a handle changes only when
\* another handle is assigned to it, and then to that handle's node; a
\* node that a conversion has made goes on referring to its record, alive
\* and named as the node, whatever becomes of the handle; the
\* extern-argument form is that expression and no more.
C8_CurrentRecord ==
    /\ [](\A h \in Addr : Live(h) =>
             /\ Rec(h).alloc
             /\ ToExpr(h) = Variable_make(type_of(T), Rec(h).name, handles[h].rec)
             /\ ToExternFuncArgument(h) = [is_expr |-> TRUE, expr |-> ToExpr(h)]
             /\ \A h2 \in Addr : SameRecord(h, h2) => ToExpr(h2) = ToExpr(h))
    /\ [](\A e \in exprs :
             /\ e.param \in RecId
             /\ records[e.param].alloc
             /\ e = Variable_make(type_of(T), records[e.param].name, e.param))
    /\ [][\A h \in Addr : Convert(h) => exprs' = exprs \cup {ToExpr(h)}]_vars
    /\ [][\A h \in Addr :
             (Live(h) /\ Live(h)' /\ ToExpr(h)' # ToExpr(h)) =>
                 \E src \in Addr : src # h /\ Assign(src, h) /\ ToExpr(h)' = ToExpr(src)]_vars
    /\ [][\A src \in Addr, dst \in Addr :
             (handles'[dst] # handles[dst] /\ Copy(src, dst)) => ToExpr(dst)' = ToExpr(src)]_vars

\* a handle constructed on a record of its own has been assigned a handle
\* with an auto-generated name and converts to that handle's node
C8_Witness ==
    \E h1 \in Addr, h2 \in Addr :
        /\ h1 # h2
        /\ SameRecord(h1, h2)
        /\ ~SameOrigin(h1, h2)
        /\ ToExpr(h1) \in exprs
        /\ \E e \in exprs : Holders(e.param) = {}
        /\ ToExpr(h1) = ToExpr(h2)
        /\ name(h1) = make_entity_name(h1, "Halide::Param<?", "p")

\* ---------------------------------------------------------------- C9
Rank(step) ==
    CASE step = "Parameter"     -> 0
      [] step = "check_name"    -> 1
      [] step = "set_min_value" -> 2
      [] step = "set_max_value" -> 3
      [] step = "set"           -> 4
      [] step = "ret"           -> 5

\* C9: the statements of a constructor run in the order record creation,
\* name check, minimum, maximum, value, and set_range stores the minimum
\* before the maximum; the value is never written before the bounds.
C9_ConstructionOrder ==
    LET did == Range(cur.done) IN
    /\ \A i \in 1..Len(cur.done), j \in 1..Len(cur.done) :
           i < j => Rank(cur.done[i]) < Rank(cur.done[j])
    /\ "set_max_value" \in did => "set_min_value" \in did
    /\ ("set" \in did /\ cur.variant \in RangeVariants)
           => {"set_min_value", "set_max_value"} \subseteq did
    /\ (cur.variant \in NamedVariants /\ did \cap {"set_min_value", "set_max_value", "set"} # {})
           => "check_name" \in did
    /\ cur.op = "ctor" =>
           /\ records[cur.rec].has_value => "set" \in did
           /\ defined(records[cur.rec].min_value) => "set_min_value" \in did
           /\ defined(records[cur.rec].max_value) => "set_max_value" \in did
           /\ (records[cur.rec].has_value /\ cur.variant \in RangeVariants)
                  => {"set_min_value", "set_max_value"} \subseteq did
    /\ cur.op = "set_range" =>
           cur.done \in {<<>>, <<"set_min_value">>, <<"set_min_value", "set_max_value">>}

C9_Witness ==
    /\ cur.op = "ctor"
    /\ cur.variant = "name_val_range"
    /\ Head(cur.todo) = "ret"
    /\ records[cur.rec].has_value
    /\ defined(records[cur.rec].min_value)
    /\ defined(records[cur.rec].max_value)

====
